---- MODULE Spec2Model ----
(***************************************************************************)
(* A model of amass/dns.go: the DNS resolution and wildcard-suppression    *)
(* service (resolver pool, dnsQuery, wildcard detection, the request       *)
(* pipeline of DNSService and its activity flag).                          *)
(*                                                                         *)
(* Host names are sequences of one-character strings, so that the string   *)
(* operations of the code (HasSuffix, Split, Join, len, the %2F trim) are  *)
(* computed character by character; addresses are such sequences too.     *)
(* Tags, sources and record types are only compared for equality and are   *)
(* plain strings.                                                          *)
(***************************************************************************)
EXTENDS Integers, Sequences, FiniteSets, Bags, TLC

\* ------------------------------------------------------------------------
\* Program constants (dns.go:16-21)
maxNameLen == 253

maxLabelLen == 63

CNAMEHops == 10

\* The characters of ldhChars, "abcdefghijklmnopqrstuvwxyz0123456789-"
ldhChars ==
    {"a","b","c","d","e","f","g","h","i","j","k","l","m","n","o","p","q",
     "r","s","t","u","v","w","x","y","z","0","1","2","3","4","5","6","7",
     "8","9","-"}

\* The list of public resolvers probed at start-up.  The code lists 25
\* addresses; the model keeps two of them, which is enough for every
\* subset shape (none, one, several usable) to occur.
knownPublicServers == <<"8.8.8.8:53", "64.6.64.6:53">>

\* Tags (the closed set of the surrounding package; only SEARCH and DNS are
\* named by dns.go)
SEARCH == "SEARCH"

DNS == "DNS"

BRUTE == "BRUTE"

ALT == "ALT"

\* ------------------------------------------------------------------------
\* Bounds of the model

\* Number of requests the producers write to the input stream in one run.
MaxInputs == 2

\* ------------------------------------------------------------------------
\* String helpers (Go's strings package, on sequences of characters)

Dot == "."

\* strings.HasSuffix(s, suffix)
HasSuffix(s, suffix) ==
    /\ Len(suffix) <= Len(s)
    /\ SubSeq(s, Len(s) - Len(suffix) + 1, Len(s)) = suffix

\* Index of the first "." of s, 0 when there is none
FirstDot(s) ==
    IF \E i \in 1..Len(s) : s[i] = Dot
    THEN CHOOSE i \in 1..Len(s) : s[i] = Dot /\ \A j \in 1..(i-1) : s[j] # Dot
    ELSE 0

\* strings.Split(s, "."): the labels of s (one empty label for the empty string)
RECURSIVE Split(_)
SplitAt(s, i) ==
    IF i = 0 THEN <<s>>
    ELSE <<SubSeq(s, 1, i - 1)>> \o Split(SubSeq(s, i + 1, Len(s)))

Split(s) == SplitAt(s, FirstDot(s))

\* strings.Join(labels, ".")
RECURSIVE Join(_)
Join(labels) ==
    IF Len(labels) = 0 THEN <<>>
    ELSE IF Len(labels) = 1 THEN labels[1]
    ELSE labels[1] \o <<Dot>> \o Join(Tail(labels))

\* n copies of character c
Rep(c, n) == [i \in 1..n |-> c]

\* trim252F(name): strips one leading URL-encoded forward slash, "%2F" in
\* either case.  Its source is outside dns.go; modelled from the interface
\* description (name normalisation).
trim252F(name) ==
    IF /\ Len(name) >= 3
       /\ name[1] = "%"
       /\ name[2] = "2"
       /\ name[3] \in {"F", "f"}
    THEN SubSeq(name, 4, Len(name))
    ELSE name

\* ------------------------------------------------------------------------
\* Host names of the modelled zones

N_ec == <<"e", ".", "c">>

N_wc == <<"w", ".", "c">>

N_a == <<"a", ".", "e", ".", "c">>

N_v == <<"v", ".", "e", ".", "c">>

N_n == <<"n", ".", "e", ".", "c">>

N_c == <<"c", ".", "e", ".", "c">>

N_l == <<"l", ".", "e", ".", "c">>

N_bxe == <<"b", ".", "x", "e", ".", "c">>

N_xo == <<"x", ".", "o", ".", "c">>

N_f == <<"f", ".", "w", ".", "c">>

N_gf == <<"g", ".", "f", ".", "w", ".", "c">>

N_pct_a == <<"%", "2", "F">> \o N_a

N_pct == <<"%", "2", "f">>

\* Addresses
IP_1 == <<"1", ".", "1", ".", "1", ".", "1">>

IP_2 == <<"2", ".", "2", ".", "2", ".", "2">>

IP_8 == <<"8", ".", "8", ".", "8", ".", "8">>

IP_9 == <<"9", ".", "9", ".", "9", ".", "9">>

IP6_1 == <<":", ":", "1">>

IP6_6 == <<":", ":", "6">>

\* A real host whose label is 31 times "p": a name a probe can draw
N_p31 == Rep("p", maxLabelLen \div 2) \o <<Dot>> \o N_ec

\* A zone with two such hosts
N_hc == <<"h", ".", "c">>

N_p31h == Rep("p", maxLabelLen \div 2) \o <<Dot>> \o N_hc

N_q31h == Rep("q", maxLabelLen \div 2) \o <<Dot>> \o N_hc

\* ------------------------------------------------------------------------
\* The resolver: recon.ResolveDNS(name, server, qtype), a library outside the
\* repository.  It is a fixed zone: the answer is a function of the name and
\* the record type, the same on every server.
\*   a.e.c      A 1.1.1.1 and AAAA ::1        (dual stack)
\*   v.e.c      AAAA ::6 only                 (IPv6 only)
\*   n.e.c      CNAME c.e.c, c.e.c CNAME b.xe.c, b.xe.c CNAME x.o.c,
\*              x.o.c A 2.2.2.2
\*   l.e.c      CNAME l.e.c                   (a loop; no address resolves)
\*   p{31}.e.c  A 1.1.1.1                     (a host with a 31-letter label)
\*   p{31}.h.c  A 1.1.1.1, q{31}.h.c A 2.2.2.2 (two such hosts)
\*   *.w.c      A 9.9.9.9                     (a wildcard zone)
\*   *.f.w.c    A 9.9.9.9 and A 8.8.8.8       (a narrower wildcard)

Answer(name, type, data) == [Name |-> name, Type |-> type, Data |-> data]

Failed == [err |-> TRUE, ans |-> <<>>]

Success(ans) == [err |-> FALSE, ans |-> ans]

UnderWild(name, sub) == HasSuffix(name, <<Dot>> \o sub) /\ Len(name) <= maxNameLen

ZoneCNAME(name) ==
    CASE name = N_n -> Success(<<Answer(name, "CNAME", N_c)>>)
      [] name = N_c -> Success(<<Answer(name, "CNAME", N_bxe)>>)
      [] name = N_bxe -> Success(<<Answer(name, "CNAME", N_xo)>>)
      [] name = N_l -> Success(<<Answer(name, "CNAME", N_l)>>)
      [] OTHER -> Failed

ZoneA(name) ==
    CASE name = N_a -> Success(<<Answer(name, "A", IP_1)>>)
      [] name = N_p31 -> Success(<<Answer(name, "A", IP_1)>>)
      [] name = N_p31h -> Success(<<Answer(name, "A", IP_1)>>)
      [] name = N_q31h -> Success(<<Answer(name, "A", IP_2)>>)
      [] name = N_xo -> Success(<<Answer(name, "A", IP_2)>>)
      [] UnderWild(name, N_f) ->
            Success(<<Answer(name, "A", IP_9), Answer(name, "A", IP_8)>>)
      [] UnderWild(name, N_wc) -> Success(<<Answer(name, "A", IP_9)>>)
      [] OTHER -> Failed

ZoneAAAA(name) ==
    CASE name = N_a -> Success(<<Answer(name, "AAAA", IP6_1)>>)
      [] name = N_v -> Success(<<Answer(name, "AAAA", IP6_6)>>)
      [] OTHER -> Failed

ResolveDNS(name, server, qtype) ==
    CASE qtype = "CNAME" -> ZoneCNAME(name)
      [] qtype = "A" -> ZoneA(name)
      [] qtype = "AAAA" -> ZoneAAAA(name)
      [] OTHER -> Failed

\* recon.GetARecordData(answers): the data of the first A record, the empty
\* string if there is none
RECURSIVE GetARecordData(_)
GetARecordData(answers) ==
    IF answers = <<>> THEN <<>>
    ELSE IF Head(answers).Type = "A" THEN Head(answers).Data
    ELSE GetARecordData(Tail(answers))

\* ------------------------------------------------------------------------
\* The Query Engine

\* recursiveCNAME(name, server), from iteration i on: the CNAME answers, the
\* final name, and the number of resolver queries issued.  CNAMEStep is the
\* body of the loop, r being what ResolveDNS returned.
RECURSIVE CNAMELoop(_, _, _, _, _, _)
CNAMEStep(i, hops, server, answers, n, name, r) ==
    IF r.err THEN [answers |-> answers, name |-> name, queries |-> n + 1]
    ELSE CNAMELoop(i + 1, hops, r.ans[1].Data, server,
                   Append(answers, r.ans[1]), n + 1)

CNAMELoop(i, hops, name, server, answers, n) ==
    IF i >= hops THEN [answers |-> answers, name |-> name, queries |-> n]
    ELSE CNAMEStep(i, hops, server, answers, n, name,
                   ResolveDNS(name, server, "CNAME"))

recursiveCNAME_11Hops(name, server) ==
    CNAMELoop(0, CNAMEHops + 1, name, server, <<>>, 0)

recursiveCNAME(name, server) ==
    CNAMELoop(0, CNAMEHops, name, server, <<>>, 0)

\* dnsQueryResult failing as soon as one of the two address queries fails
dnsQueryResult_EitherFails(c, a, a6) ==
    IF a.err \/ a6.err
    THEN [err |-> TRUE, answers |-> <<>>, queries |-> c.queries + 2]
    ELSE [err |-> FALSE, answers |-> c.answers \o a.ans \o a6.ans,
          queries |-> c.queries + 2]

\* The end of dnsQuery: c is what recursiveCNAME returned, a and a6 what the
\* A and the AAAA query returned
dnsQueryResult(c, a, a6) ==
    IF a.err /\ a6.err
    THEN [err |-> TRUE, answers |-> <<>>, queries |-> c.queries + 2]
    ELSE [err |-> FALSE,
          answers |-> c.answers \o (IF a.err THEN <<>> ELSE a.ans)
                                \o (IF a6.err THEN <<>> ELSE a6.ans),
          queries |-> c.queries + 2]

\* dnsQuery after recursiveCNAME: the A and the AAAA query of the final name
dnsQueryAddresses(c, server) ==
    dnsQueryResult(c, ResolveDNS(c.name, server, "A"),
                   ResolveDNS(c.name, server, "AAAA"))

\* dnsQuery(domain, name, server): [err, answers, queries], queries being
\* the number of ResolveDNS calls it made
dnsQuery(domain, name, server) ==
    dnsQueryAddresses(recursiveCNAME(name, server), server)

\* ------------------------------------------------------------------------
\* Wildcard detection

\* A *stringset.StringSet: nil, or a set of strings
NilSet == [nil |-> TRUE, set |-> {}]

StringSet(set) == [nil |-> FALSE, set |-> set]

\* answersToStringSet(answers)
answersToStringSet(answers) ==
    StringSet({answers[i].Data : i \in DOMAIN answers})

\* The label length l that unlikelyName derives from l = maxNameLen -
\* len(sub); 0 when it returns early
LabelLenOf(l) ==
    IF l > maxLabelLen THEN maxLabelLen \div 2
    ELSE IF l < 1 THEN 0
    ELSE l

LabelLen(sub) == LabelLenOf(maxNameLen - Len(sub))

\* The loop of unlikelyName.  rnd[i] is the character ldh[sel] drawn in
\* iteration i: the alphabet is shuffled and sel is uniform, so every
\* character of ldhChars can be drawn in every iteration.
RECURSIVE LabelLoop(_, _, _, _)
LabelLoop(i, l, rnd, newlabel) ==
    IF i >= l THEN newlabel
    ELSE IF (i = 0 \/ i = l - 1) /\ rnd[i] = "-"
         THEN LabelLoop(i + 1, l, rnd, newlabel)
         ELSE LabelLoop(i + 1, l, rnd, Append(newlabel, rnd[i]))

\* The label unlikelyName builds (empty on the early return)
unlikelyLabel(sub, rnd) == LabelLoop(0, LabelLen(sub), rnd, <<>>)

\* The end of unlikelyName
unlikelyNameOf(newlabel, sub) ==
    IF newlabel = <<>> THEN <<>>
    ELSE newlabel \o <<Dot>> \o sub

\* unlikelyName(sub), with the random draws rnd
unlikelyName(sub, rnd) == unlikelyNameOf(unlikelyLabel(sub, rnd), sub)

\* checkForWildcard from the call of dnsQuery on: [ss, queries], queries
\* being the query counts of its dnsQuery calls
checkResult(q) ==
    [ss |-> IF q.err THEN NilSet ELSE answersToStringSet(q.answers),
     queries |-> {q.queries}]

checkName(name, root, server) ==
    IF name = <<>> THEN [ss |-> NilSet, queries |-> {}]
    ELSE checkResult(dnsQuery(root, name, server))

\* checkForWildcard(sub, root, server), with the random draws rnd
checkForWildcard(sub, root, server, rnd) ==
    checkName(unlikelyName(sub, rnd), root, server)

\* detectionResult with the third probe left out of the decision
detectionResult_ThirdIgnored(c1, c2, c3) ==
    IF c1.ss.nil
    THEN [result |-> NilSet, queries |-> c1.queries, probes |-> 1]
    ELSE IF c2.ss.nil
    THEN [result |-> NilSet, queries |-> c1.queries \cup c2.queries,
          probes |-> 2]
    ELSE [result |-> IF c1.ss.set # {} /\ c1.ss.set = c2.ss.set
                     THEN c1.ss ELSE NilSet,
          queries |-> c1.queries \cup c2.queries \cup c3.queries,
          probes |-> 3]

\* The decision of wildcardDetection on the results of its probes:
\* [result, queries, probes], probes being the probes it made
detectionResult(c1, c2, c3) ==
    IF c1.ss.nil
    THEN [result |-> NilSet, queries |-> c1.queries, probes |-> 1]
    ELSE IF c2.ss.nil
    THEN [result |-> NilSet, queries |-> c1.queries \cup c2.queries,
          probes |-> 2]
    ELSE IF c3.ss.nil
    THEN [result |-> NilSet,
          queries |-> c1.queries \cup c2.queries \cup c3.queries,
          probes |-> 3]
    ELSE [result |-> IF c1.ss.set # {} /\ c1.ss.set = c2.ss.set
                        /\ c2.ss.set = c3.ss.set
                     THEN c1.ss ELSE NilSet,
          queries |-> c1.queries \cup c2.queries \cup c3.queries,
          probes |-> 3]

\* wildcardDetection(sub, root): checks holds what its three calls of
\* checkForWildcard return
wildcardDetection(checks) == detectionResult(checks[1], checks[2], checks[3])

\* A dnsWildcard cache entry
Entry(ss) ==
    IF ss.nil THEN [HasWildcard |-> FALSE, Answers |-> NilSet]
    ELSE [HasWildcard |-> TRUE, Answers |-> ss]

\* EntryMatches without the test of the address
EntryMatches_AnyAddress(w, ip) == w.HasWildcard

\* The check of one cache entry against the address (dns.go:339)
EntryMatches(w, ip) == w.HasWildcard /\ ip \in w.Answers.set

\* labels[i:] of the code, joined: the suffix after the first i labels
SubAt(labels, i) == Join(SubSeq(labels, i + 1, Len(labels)))

\* MatchStep with the address check left out for a suffix found in the cache
MatchStep_CachedSkipped(sub, ip, d, acc) ==
    IF sub \in DOMAIN acc.wildcards
    THEN acc
    ELSE [answer |-> acc.answer \/ EntryMatches(Entry(d.result), ip),
          wildcards |-> (sub :> Entry(d.result)) @@ acc.wildcards,
          queries |-> acc.queries \cup d.queries,
          detected |-> Append(acc.detected, sub)]

\* MatchStep running the detection again for a suffix cached as Negative
MatchStep_NegativeRedetected(sub, ip, d, acc) ==
    IF sub \in DOMAIN acc.wildcards /\ acc.wildcards[sub].HasWildcard
    THEN [acc EXCEPT !.answer = @ \/ EntryMatches(acc.wildcards[sub], ip)]
    ELSE [answer |-> acc.answer \/ EntryMatches(Entry(d.result), ip),
          wildcards |-> (sub :> Entry(d.result)) @@ acc.wildcards,
          queries |-> acc.queries \cup d.queries,
          detected |-> Append(acc.detected, sub)]

\* One iteration of the loop of matchesWildcard, for the suffix sub.  d is
\* what wildcardDetection returns when the suffix has no cache entry.
\* acc: [answer, wildcards, queries, detected]
MatchStep(sub, ip, d, acc) ==
    IF sub \in DOMAIN acc.wildcards
    THEN [acc EXCEPT !.answer = @ \/ EntryMatches(acc.wildcards[sub], ip)]
    ELSE [answer |-> acc.answer \/ EntryMatches(Entry(d.result), ip),
          wildcards |-> (sub :> Entry(d.result)) @@ acc.wildcards,
          queries |-> acc.queries \cup d.queries,
          detected |-> Append(acc.detected, sub)]

\* The loop of matchesWildcard from index i down to 1.  detect[i] is what
\* the call of wildcardDetection returns for the suffix at index i, when
\* the loop runs one there.
RECURSIVE MatchLoop(_, _, _, _, _)
MatchLoop(i, labels, ip, detect, acc) ==
    IF i <= 0 THEN acc
    ELSE MatchLoop(i - 1, labels, ip, detect,
                   MatchStep(SubAt(labels, i), ip,
                             IF i \in DOMAIN detect THEN detect[i]
                             ELSE [result |-> NilSet, queries |-> {}],
                             acc))

\* matchesWildcard(name, root, ip, wildcards)
matchesWildcard(name, root, ip, wildcards, detect) ==
    MatchLoop(Len(Split(name)) - Len(Split(root)), Split(name), ip, detect,
              [answer |-> FALSE, wildcards |-> wildcards,
               queries |-> {}, detected |-> <<>>])

\* ------------------------------------------------------------------------
\* The request pipeline: state

VARIABLES
    usableServers,  \* the package variable set by init()
    started,        \* OnStart has launched the two goroutines
    panicked,       \* a goroutine hit a run-time panic: the process is gone
    inputs,         \* history: the requests received from ds.Input() so far
    filter,         \* processRequests: names already admitted
    queue,          \* processRequests: admitted requests awaiting their tick
    active,         \* the activity flag of BaseAmassService
    tasks,          \* the performDNSRequest goroutines, in dispatch order
    wildcards,      \* the channel ds.wildcards (ids of the waiting tasks)
    wildcardCache,  \* processWildcardMatches: its local map wildcards
    sending,        \* the sendOut goroutines that have not yet written
    output,         \* history: the requests written to ds.Output()
    queryCounts,    \* history: resolver queries issued by each dnsQuery call
    probe,          \* unlikelyName called on its own: [sub, pc, label, name]
    quit,           \* the channel ds.Quit() is closed
    loopDone,       \* processRequests has left its loop
    workerDone,     \* processWildcardMatches has left its loop
    popped,         \* history: the requests taken off the queue, in order
    detected,       \* history: the calls of wildcardDetection, per suffix
    detection       \* wildcardDetection called on its own

vars == <<usableServers, started, panicked, inputs, filter, queue, active,
          tasks, wildcards, wildcardCache, sending, output, queryCounts, probe,
          quit, loopDone, workerDone, popped, detected, detection>>

pipelineVars == <<usableServers, started, panicked, inputs, filter, queue,
                  active, tasks, wildcards, wildcardCache, sending, output,
                  queryCounts, quit, loopDone, workerDone, popped, detected>>

\* An AmassRequest
Request(name, domain, tag, source) ==
    [Name |-> name, Domain |-> domain, Address |-> <<>>, Tag |-> tag,
     Source |-> source]

\* The requests the producers may write to the input stream.  A request's
\* domain is the apex its name is under, or empty (bootstrap only).
Requests ==
    { Request(N_a, N_ec, BRUTE, "brute"),
      Request(N_a, <<>>, BRUTE, "brute"),
      Request(N_pct_a, N_ec, ALT, "alt"),
      Request(N_pct, N_ec, ALT, "alt"),
      Request(N_f, N_wc, BRUTE, "brute"),
      Request(N_f, N_wc, SEARCH, "bing"),
      Request(N_gf, N_wc, BRUTE, "brute"),
      Request(N_v, N_ec, SEARCH, "bing"),
      Request(N_n, N_ec, ALT, "alt"),
      Request(N_l, N_ec, BRUTE, "brute") }

\* The values rand.Int() is reduced to by "% len(usableServers)"
RandInts == 0..(Len(knownPublicServers) - 1)

\* The draws of one probe label: every iteration draws the same letter
RndConst(c) == [i \in 0..(maxLabelLen - 1) |-> c]

ProbeRnds == {RndConst("p"), RndConst("q")}

\* The sequences s of elements of list, in list order, that testPublicServers
\* can return: one for every set of servers answering the probe
RECURSIVE SubLists(_)
SubLists(list) ==
    IF list = <<>> THEN {<<>>}
    ELSE LET rest == SubLists(Tail(list)) IN
         rest \cup {<<Head(list)>> \o r : r \in rest}

\* testPublicServers(): the servers that answered the start-up probe
testPublicServers == SubLists(knownPublicServers)

\* NextNameserver(), num being the value of rand.Int()
NextNameserver(num) == usableServers[(num % Len(usableServers)) + 1]

IdleProbe == [sub |-> <<>>, pc |-> "idle", label |-> <<>>, name |-> <<>>]

IdleDetection ==
    [sub |-> <<>>, root |-> <<>>, pc |-> "idle", asked |-> <<>>,
     checks |-> <<>>, result |-> NilSet, probes |-> 0]

\* The state after the package's init(): the resolver list is whatever
\* testPublicServers returned; the service is constructed and not started.
Init ==
    /\ usableServers \in testPublicServers
    /\ started = FALSE
    /\ panicked = FALSE
    /\ inputs = <<>>
    /\ filter = {}
    /\ queue = <<>>
    /\ active = FALSE
    /\ tasks = <<>>
    /\ wildcards = <<>>
    /\ wildcardCache = <<>>
    /\ sending = EmptyBag
    /\ output = EmptyBag
    /\ queryCounts = {}
    /\ probe = IdleProbe
    /\ quit = FALSE
    /\ loopDone = FALSE
    /\ workerDone = FALSE
    /\ popped = <<>>
    /\ detected = EmptyBag
    /\ detection = IdleDetection

Running == started /\ ~panicked

\* ------------------------------------------------------------------------
\* The request pipeline: actions

\* OnStart: launches processRequests and processWildcardMatches
OnStart ==
    /\ ~started
    /\ started' = TRUE
    /\ UNCHANGED <<usableServers, panicked, inputs, filter, queue, active,
                   tasks, wildcards, wildcardCache, sending, output,
                   queryCounts, probe,
                   quit, loopDone, workerDone, popped, detected, detection>>

\* The admission test of processRequests (dns.go:167)
Admissible_NoFilter(name, seen) == name # <<>>

Admissible(name, seen) == name # <<>> /\ name \notin seen

\* processRequests, case add := <-ds.Input()
Admit(add) ==
    LET name == trim252F(add.Name) IN
    /\ Running
    /\ ~loopDone
    /\ Len(inputs) < MaxInputs
    /\ inputs' = Append(inputs, add)
    /\ IF Admissible(name, filter)
       THEN /\ filter' = filter \cup {name}
            /\ queue' = Append(queue, [add EXCEPT !.Name = name])
            /\ active' = TRUE
       ELSE UNCHANGED <<filter, queue, active>>
    /\ UNCHANGED <<usableServers, started, panicked, tasks, wildcards,
                   wildcardCache, sending, output, queryCounts, probe,
                   quit, loopDone, workerDone, popped, detected, detection>>

\* A performDNSRequest goroutine as "go" creates it.  atQuit is history: the
\* goroutine had not returned when the quit channel was closed.
NewTask(req) ==
    [req |-> req, pc |-> "spawned", resolved |-> FALSE, answers |-> <<>>,
     reply |-> <<>>, match |-> FALSE, atQuit |-> FALSE]

\* The pop of processRequests (dns.go:175-184): the head of the queue and the
\* queue without it
Dequeued_Last(q) == [next |-> q[Len(q)], queue |-> SubSeq(q, 1, Len(q) - 1)]

Dequeued(q) == [next |-> q[1], queue |-> Tail(q)]

\* processRequests, case <-t.C with a non-empty queue (an empty queue makes
\* the tick a no-op)
Tick ==
    /\ Running
    /\ ~loopDone
    /\ Len(queue) > 0
    /\ tasks' = IF Dequeued(queue).next.Domain # <<>>
                THEN Append(tasks, NewTask(Dequeued(queue).next))
                ELSE tasks
    /\ popped' = Append(popped, Dequeued(queue).next)
    /\ queue' = Dequeued(queue).queue
    /\ UNCHANGED <<usableServers, started, panicked, inputs, filter, active,
                   wildcards, wildcardCache, sending, output, queryCounts,
                   probe, quit, loopDone, workerDone, detected, detection>>

\* The test of the idle check (dns.go:187)
IdleNow_Always(q) == TRUE

IdleNow(q) == Len(q) = 0

\* processRequests, case <-check.C with an empty queue (a non-empty queue
\* makes the check a no-op)
Check ==
    /\ Running
    /\ ~loopDone
    /\ IdleNow(queue)
    /\ active' = FALSE
    /\ UNCHANGED <<usableServers, started, panicked, inputs, filter, queue,
                   tasks, wildcards, wildcardCache, sending, output,
                   queryCounts, probe,
                   quit, loopDone, workerDone, popped, detected, detection>>

\* performDNSRequest, its first statement: ds.SetActive(true)
TaskStart(t) ==
    /\ Running
    /\ tasks[t].pc = "spawned"
    /\ active' = TRUE
    /\ tasks' = [tasks EXCEPT ![t].pc = "query"]
    /\ UNCHANGED <<usableServers, started, panicked, inputs, filter, queue,
                   wildcards, wildcardCache, sending, output, queryCounts,
                   probe,
                   quit, loopDone, workerDone, popped, detected, detection>>

\* performDNSRequest after dnsQuery returned q and GetARecordData ipstr: the
\* two early returns, or the send on ds.wildcards.  The send never blocks:
\* the channel holds 50 requests and the model runs fewer tasks.
TaskResolved(t, q, ipstr) ==
    /\ queryCounts' = queryCounts \cup {q.queries}
    /\ IF q.err \/ ipstr = <<>>
       THEN /\ tasks' = [tasks EXCEPT ![t].pc = "done",
                                      ![t].resolved = ~q.err,
                                      ![t].answers = q.answers]
            /\ UNCHANGED wildcards
       ELSE /\ tasks' = [tasks EXCEPT ![t].pc = "wait",
                                      ![t].resolved = TRUE,
                                      ![t].answers = q.answers,
                                      ![t].req.Address = ipstr]
            /\ wildcards' = Append(wildcards, t)

TaskQueried(t, q) == TaskResolved(t, q, GetARecordData(q.answers))

\* performDNSRequest from NextNameserver() to the send on ds.wildcards.
\* With no usable server NextNameserver divides by zero and the process
\* panics.
TaskQuery(t) ==
    /\ Running
    /\ tasks[t].pc = "query"
    /\ IF Len(usableServers) = 0
       THEN /\ panicked' = TRUE
            /\ UNCHANGED <<tasks, wildcards, queryCounts>>
       ELSE /\ \E num \in RandInts :
                 TaskQueried(t, dnsQuery(tasks[t].req.Domain,
                                         tasks[t].req.Name,
                                         NextNameserver(num)))
            /\ UNCHANGED panicked
    /\ UNCHANGED <<usableServers, started, inputs, filter, queue, active,
                   wildcardCache, sending, output, probe,
                   quit, loopDone, workerDone, popped, detected, detection>>

\* The indices of the loop of matchesWildcard at which it runs a detection:
\* those whose suffix has no cache entry yet
UndetectedOf(labels, depth, cache) ==
    {i \in 1..depth : SubAt(labels, i) \notin DOMAIN cache}

Undetected(name, root, cache) ==
    UndetectedOf(Split(name), Len(Split(name)) - Len(Split(root)), cache)

\* What one call of checkForWildcard(sub, root, server) can return: one
\* result for every draw of the probe label
Checks(sub, root, server) ==
    {checkForWildcard(sub, root, server, rnd) : rnd \in ProbeRnds}

\* What wildcardDetection(sub, root) can return: it picks one server with
\* NextNameserver() and calls checkForWildcard three times with it
Detections(sub, root) ==
    UNION {{wildcardDetection(checks) :
                checks \in [1..3 -> Checks(sub, root, NextNameserver(num))]} :
           num \in RandInts}

\* The outcomes of the detections one call of matchesWildcard runs: one
\* outcome of wildcardDetection for every index in indices
RECURSIVE ChoicesAt(_, _, _)
ChoicesWith(labels, root, indices, i) ==
    {(i :> d) @@ rest :
        d \in Detections(SubAt(labels, i), root),
        rest \in ChoicesAt(labels, root, indices \ {i})}

ChoicesAt(labels, root, indices) ==
    IF indices = {} THEN {<<>>}
    ELSE ChoicesWith(labels, root, indices,
                     CHOOSE i \in indices : \A k \in indices : i >= k)

Choices(name, root, cache) ==
    ChoicesAt(Split(name), root, Undetected(name, root, cache))

\* The suffixes of a list, counted
SeqToBag(seq) ==
    [x \in {seq[i] : i \in DOMAIN seq} |->
        Cardinality({i \in DOMAIN seq : seq[i] = x})]

\* The worker's step for task t, m being what matchesWildcard returned
WildcardReply(t, m) ==
    /\ wildcardCache' = m.wildcards
    /\ detected' = detected (+) SeqToBag(m.detected)
    /\ queryCounts' = queryCounts \cup m.queries
    /\ tasks' = [tasks EXCEPT ![t].reply = <<m.answer>>]

WildcardMatch(t, r) ==
    \E detect \in Choices(r.Name, r.Domain, wildcardCache) :
        WildcardReply(t, matchesWildcard(r.Name, r.Domain, r.Address,
                                         wildcardCache, detect))

\* processWildcardMatches, case req := <-ds.wildcards: matchesWildcard and
\* the reply on req.Ans
WildcardWorker ==
    /\ Running
    /\ ~workerDone
    /\ Len(wildcards) > 0
    /\ WildcardMatch(Head(wildcards), tasks[Head(wildcards)].req)
    /\ wildcards' = Tail(wildcards)
    /\ UNCHANGED <<usableServers, started, panicked, inputs, filter, queue,
                   active, sending, output, probe,
                   quit, loopDone, workerDone, popped, detection>>

\* The test of performDNSRequest that drops a result (dns.go:212)
Suppressed_NoExemption(tag, match) == match

Suppressed(tag, match) == tag # SEARCH /\ match

\* The requests performDNSRequest hands to sendOut for the answers from
\* index i on, as a bag of [req, by]: by is the task they come from
RECURSIVE Emissions(_, _, _, _)
Emissions(t, req, answers, i) ==
    IF i > Len(answers) THEN EmptyBag
    ELSE LET record == answers[i]
             own == record.Name = req.Name
             out == [Name |-> record.Name, Domain |-> req.Domain,
                     Address |-> req.Address,
                     Tag |-> IF own THEN req.Tag ELSE DNS,
                     Source |-> IF own THEN req.Source ELSE "DNS"]
         IN  IF ~HasSuffix(record.Name, req.Domain)
             THEN Emissions(t, req, answers, i + 1)
             ELSE SetToBag({[req |-> out, by |-> t]})
                    (+) Emissions(t, req, answers, i + 1)

\* performDNSRequest from the receive of the wildcard answer to its return
TaskFinish(t) ==
    /\ Running
    /\ tasks[t].pc = "wait"
    /\ tasks[t].reply # <<>>
    /\ LET match == tasks[t].reply[1] IN
       /\ tasks' = [tasks EXCEPT ![t].pc = "done", ![t].match = match,
                                 ![t].reply = <<>>]
       /\ sending' = IF Suppressed(tasks[t].req.Tag, match) THEN sending
                     ELSE sending (+) Emissions(t, tasks[t].req,
                                                tasks[t].answers, 1)
    /\ UNCHANGED <<usableServers, started, panicked, inputs, filter, queue,
                   active, wildcards, wildcardCache, output, queryCounts,
                   probe,
                   quit, loopDone, workerDone, popped, detected, detection>>

\* sendOut(req), run as a goroutine of its own: the trim, the write to the
\* output stream (its reader takes every request) and SetActive(true)
sendOut(e) ==
    /\ Running
    /\ BagIn(e, sending)
    /\ sending' = sending (-) SetToBag({e})
    /\ output' = output (+) SetToBag({[e EXCEPT !.req.Name = trim252F(@)]})
    /\ active' = TRUE
    /\ UNCHANGED <<usableServers, started, panicked, inputs, filter, queue,
                   tasks, wildcards, wildcardCache, queryCounts, probe,
                   quit, loopDone, workerDone, popped, detected, detection>>

\* OnStop: BaseAmassService.OnStop closes the quit channel
OnStop ==
    /\ Running
    /\ ~quit
    /\ quit' = TRUE
    /\ tasks' = [t \in DOMAIN tasks |->
                    [tasks[t] EXCEPT !.atQuit = tasks[t].pc # "done"]]
    /\ UNCHANGED <<usableServers, started, panicked, inputs, filter, queue,
                   active, wildcards, wildcardCache, sending, output,
                   queryCounts, probe, loopDone, workerDone, popped, detected,
                   detection>>

\* processRequests, case <-ds.Quit(): break loop.  A closed channel is
\* always ready; select takes any ready case, so the loop may still serve
\* inputs and ticks before it takes this one.
LoopQuit ==
    /\ Running
    /\ quit
    /\ ~loopDone
    /\ loopDone' = TRUE
    /\ UNCHANGED <<usableServers, started, panicked, inputs, filter, queue,
                   active, tasks, wildcards, wildcardCache, sending, output,
                   queryCounts, probe, quit, workerDone, popped, detected,
                   detection>>

\* processWildcardMatches, case <-ds.Quit(): break loop
WorkerQuit ==
    /\ Running
    /\ quit
    /\ ~workerDone
    /\ workerDone' = TRUE
    /\ UNCHANGED <<usableServers, started, panicked, inputs, filter, queue,
                   active, tasks, wildcards, wildcardCache, sending, output,
                   queryCounts, probe, quit, loopDone, popped, detected,
                   detection>>

Next ==
    \/ OnStart
    \/ OnStop
    \/ LoopQuit
    \/ WorkerQuit
    \/ \E add \in Requests : Admit(add)
    \/ Tick
    \/ Check
    \/ \E t \in DOMAIN tasks : TaskStart(t)
    \/ \E t \in DOMAIN tasks : TaskQuery(t)
    \/ WildcardWorker
    \/ \E t \in DOMAIN tasks : TaskFinish(t)
    \/ \E e \in BagToSet(sending) : sendOut(e)

Spec == Init /\ [][Next]_vars

\* The scheduling of the code: the tickers keep firing and select takes a
\* case that stays ready, so the loops keep serving their ready cases;
\* every goroutine that can take a step eventually takes it.
\* The weak fairness of TaskQuery(t) and of WildcardWorker is written out
\* (WF_v(A) is []<>~ENABLED <<A>>_v \/ []<><<A>>_v) with the condition under
\* which the step is enabled and the change of state that only it makes.
QueryEnabled(t) == Running /\ t \in DOMAIN tasks /\ tasks[t].pc = "query"

QueryStep(t) ==
    /\ QueryEnabled(t)
    /\ (panicked' \/ tasks'[t].pc # "query")

WorkerEnabled == Running /\ ~workerDone /\ Len(wildcards) > 0

WorkerStep == WorkerEnabled /\ wildcards' = Tail(wildcards)

Fairness ==
    /\ WF_vars(Tick)
    /\ WF_vars(Check)
    /\ WF_vars(LoopQuit)
    /\ WF_vars(WorkerQuit)
    /\ []<>(~WorkerEnabled) \/ []<><<WorkerStep>>_vars
    /\ WF_vars(\E e \in BagToSet(sending) : sendOut(e))
    /\ \A t \in 1..MaxInputs :
         /\ WF_vars(t \in DOMAIN tasks /\ TaskStart(t))
         /\ []<>(~QueryEnabled(t)) \/ []<><<QueryStep(t)>>_vars
         /\ WF_vars(t \in DOMAIN tasks /\ TaskFinish(t))

FairSpec == Spec /\ Fairness

\* ------------------------------------------------------------------------
\* unlikelyName on its own: the suffix is drawn at the start, one call
\* applies the function to it

\* A suffix of n characters, in labels of seven letters
SubOfLen(n) == [i \in 1..n |-> IF i % 8 = 0 THEN Dot ELSE "s"]

\* Suffix lengths on both sides of every branch of unlikelyName: the label
\* length is 31 up to 189 characters and 253 - n from 190 on
ProbeSubLens == {3, 189, 190, 221, 222, 250, 251, 252, 253, 254}

\* The draws of one call: free at both ends and next to them, "m" between
UnlikelyRnds ==
    {[i \in 0..(maxLabelLen - 1) |->
        IF i = 0 THEN c[1]
        ELSE IF i = 1 THEN c[2]
        ELSE IF i = 2 THEN c[3]
        ELSE "m"] : c \in [1..3 -> {"a", "0", "-"}]}

\* The draws of a call with label length l, the last two iterations drawing
\* d[1] and d[2]
EndRnds(rnd, l, d) ==
    [i \in 0..(maxLabelLen - 1) |->
        IF i >= 3 /\ i = l - 1 THEN d[2]
        ELSE IF i >= 3 /\ i = l - 2 THEN d[1]
        ELSE rnd[i]]

InitUnlikely ==
    /\ usableServers = knownPublicServers
    /\ started = FALSE
    /\ panicked = FALSE
    /\ inputs = <<>>
    /\ filter = {}
    /\ queue = <<>>
    /\ active = FALSE
    /\ tasks = <<>>
    /\ wildcards = <<>>
    /\ wildcardCache = <<>>
    /\ sending = EmptyBag
    /\ output = EmptyBag
    /\ queryCounts = {}
    /\ quit = FALSE
    /\ loopDone = FALSE
    /\ workerDone = FALSE
    /\ popped = <<>>
    /\ detected = EmptyBag
    /\ detection = IdleDetection
    /\ probe \in {[sub |-> SubOfLen(n), pc |-> "call", label |-> <<>>,
                   name |-> <<>>] : n \in ProbeSubLens}

\* A call of unlikelyName(probe.sub) with the draws rnd
UnlikelyCall(rnd) ==
    /\ probe.pc = "call"
    /\ probe' = [probe EXCEPT !.pc = "done",
                              !.label = unlikelyLabel(probe.sub, rnd),
                              !.name = unlikelyName(probe.sub, rnd)]
    /\ UNCHANGED <<pipelineVars, detection>>

NextUnlikely ==
    \E rnd \in UnlikelyRnds, d \in [1..2 -> {"a", "-"}] :
        UnlikelyCall(EndRnds(rnd, LabelLen(probe.sub), d))

SpecUnlikely == InitUnlikely /\ [][NextUnlikely]_vars

\* ------------------------------------------------------------------------
\* wildcardDetection on its own: the suffix and the apex are drawn at the
\* start, one call applies the function to them

\* The suffixes probed: with one real host a probe can hit, with a wildcard
\* record, with a narrower wildcard, with two real hosts, with no record,
\* and two that are too long for a probe name
DetectSubs ==
    {<<N_ec, N_ec>>, <<N_wc, N_wc>>, <<N_f, N_wc>>, <<N_hc, N_hc>>,
     <<N_xo, <<"o", ".", "c">> >>, <<SubOfLen(253), <<"s">> >>,
     <<SubOfLen(254), <<"s">> >>}

\* The draws of the probe labels
DetectRnds == {RndConst("p"), RndConst("q"), RndConst("r")}

InitDetect ==
    /\ usableServers = knownPublicServers
    /\ started = FALSE
    /\ panicked = FALSE
    /\ inputs = <<>>
    /\ filter = {}
    /\ queue = <<>>
    /\ active = FALSE
    /\ tasks = <<>>
    /\ wildcards = <<>>
    /\ wildcardCache = <<>>
    /\ sending = EmptyBag
    /\ output = EmptyBag
    /\ queryCounts = {}
    /\ quit = FALSE
    /\ loopDone = FALSE
    /\ workerDone = FALSE
    /\ popped = <<>>
    /\ detected = EmptyBag
    /\ probe = IdleProbe
    /\ detection \in {[IdleDetection EXCEPT !.sub = s[1], !.root = s[2],
                                             !.pc = "call"] : s \in DetectSubs}

\* The end of a call of wildcardDetection: checks[k] is what the k-th call
\* of checkForWildcard returns (asked[k] the server and the name it used),
\* d the decision
Detected(asked, checks, d) ==
    detection' = [detection EXCEPT !.pc = "done",
                                   !.asked = SubSeq(asked, 1, d.probes),
                                   !.checks = SubSeq(checks, 1, d.probes),
                                   !.result = d.result,
                                   !.probes = d.probes]

DetectWith(server, names, checks) ==
    Detected([k \in 1..3 |-> [server |-> server, name |-> names[k]]],
             checks, wildcardDetection(checks))

\* A call of wildcardDetection(detection.sub, detection.root): num is the
\* value of rand.Int() in NextNameserver, rnds[k] the draws of the k-th probe
DetectCall(num, rnds) ==
    /\ detection.pc = "call"
    /\ DetectWith(NextNameserver(num),
                  [k \in 1..3 |-> unlikelyName(detection.sub, rnds[k])],
                  [k \in 1..3 |->
                      checkForWildcard(detection.sub, detection.root,
                                       NextNameserver(num), rnds[k])])
    /\ UNCHANGED <<pipelineVars, probe>>

NextDetect ==
    \E num \in RandInts, rnds \in [1..3 -> DetectRnds] : DetectCall(num, rnds)

SpecDetect == InitDetect /\ [][NextDetect]_vars

\* ------------------------------------------------------------------------
\* Properties

\* The requests sendOut has been started for and those written, of task t
EmittedBy(t) ==
    {e \in BagToSet(sending) \cup BagToSet(output) : e.by = t}

WrittenBy(t) == {e \in BagToSet(output) : e.by = t}

\* The input stream is used up to what was received, the queue is empty and
\* every goroutine has returned
Drained ==
    /\ Running
    /\ queue = <<>>
    /\ sending = EmptyBag
    /\ \A t \in DOMAIN tasks : tasks[t].pc = "done"

\* C1: performDNSRequest is started at most once for any normalised name:
\* no two resolution tasks of a run carry the same name.
C1_DispatchedOnce ==
    \A i, j \in DOMAIN tasks :
        i # j => tasks[i].req.Name # tasks[j].req.Name

\* C1 witness: a name has arrived twice, with different tags, the queue has
\* drained and the name was dispatched.
C1_Witness ==
    /\ queue = <<>>
    /\ \E i, j \in DOMAIN inputs :
         /\ i < j
         /\ trim252F(inputs[i].Name) = trim252F(inputs[j].Name)
         /\ inputs[i].Tag # inputs[j].Tag
         /\ \E t \in DOMAIN tasks :
                tasks[t].req.Name = trim252F(inputs[i].Name)

\* The distinct non-empty names of the input that come with a non-empty
\* domain that is a suffix of the name
MatchingNames ==
    {trim252F(inputs[i].Name) : i \in
        {k \in DOMAIN inputs :
            /\ trim252F(inputs[k].Name) # <<>>
            /\ inputs[k].Domain # <<>>
            /\ HasSuffix(trim252F(inputs[k].Name), inputs[k].Domain)}}

DispatchedNames == {tasks[t].req.Name : t \in DOMAIN tasks}

\* C2: once the queue has drained, the number of distinct names dispatched
\* equals the number of distinct non-empty input names that appear with a
\* matching non-empty domain, also when the first occurrence of a name had
\* an empty domain.
C2_DedupCount ==
    (Running /\ queue = <<>>) =>
        Cardinality(DispatchedNames) = Cardinality(MatchingNames)

\* C3: every request written to the output stream has a non-empty name, a
\* non-empty address, and a name that is its domain or ends in "." followed
\* by its domain.
C3_EmittedWellFormed ==
    \A e \in BagToSet(output) :
        /\ e.req.Name # <<>>
        /\ e.req.Address # <<>>
        /\ \/ e.req.Name = e.req.Domain
           \/ HasSuffix(e.req.Name, <<Dot>> \o e.req.Domain)

\* C4: a SEARCH request that dnsQuery resolved (its A or its AAAA query
\* succeeded) is emitted: when its task has returned and none of its sendOut
\* goroutines is pending, the output holds a request for its name.
C4_SearchEmitted ==
    \A t \in DOMAIN tasks :
        ( /\ tasks[t].pc = "done"
          /\ tasks[t].req.Tag = SEARCH
          /\ tasks[t].resolved
          /\ \A e \in BagToSet(sending) : e.by # t )
        => \E e \in WrittenBy(t) : e.req.Name = tasks[t].req.Name

\* C5: a request that resolved to an address is suppressed as a whole
\* (nothing is handed to sendOut) if and only if its wildcard match was true
\* and its tag is not SEARCH.
C5_SuppressedIff ==
    \A t \in DOMAIN tasks :
        (tasks[t].pc = "done" /\ tasks[t].req.Address # <<>>)
        => ( (EmittedBy(t) = {})
             <=> (tasks[t].match /\ tasks[t].req.Tag # SEARCH) )

\* C5 witness: a resolved task that matched a wildcard and was suppressed,
\* and a SEARCH task that matched a wildcard and whose request was written.
C5_Witness ==
    /\ \E t \in DOMAIN tasks :
         /\ tasks[t].pc = "done"
         /\ tasks[t].req.Address # <<>>
         /\ tasks[t].match
         /\ tasks[t].req.Tag # SEARCH
         /\ EmittedBy(t) = {}
    /\ \E t \in DOMAIN tasks :
         /\ tasks[t].pc = "done"
         /\ tasks[t].match
         /\ tasks[t].req.Tag = SEARCH
         /\ WrittenBy(t) # {}

\* C6: the pipeline does not run on an empty resolver set: NextNameserver is
\* never called on an empty set (the call that sets panicked).
C6_ResolversNonEmpty == ~(started /\ Len(usableServers) = 0 /\ panicked)

\* C7: while a resolution task has started and not yet returned, the
\* activity flag is true.
C7_ActiveWhileRunning ==
    (\E t \in DOMAIN tasks : tasks[t].pc \in {"query", "wait"}) => active

\* C8: a non-empty name returned by unlikelyName has a label that neither
\* starts nor ends with "-", uses only LDH characters and has at most 31
\* characters, and the name has at most 253 characters.
C8_UnlikelyWellFormed ==
    (probe.pc = "done" /\ probe.name # <<>>) =>
        /\ probe.label[1] # "-"
        /\ probe.label[Len(probe.label)] # "-"
        /\ \A i \in DOMAIN probe.label : probe.label[i] \in ldhChars
        /\ Len(probe.label) <= 31
        /\ Len(probe.name) <= 253

\* C9: a single call of dnsQuery issues at most 12 resolver queries.
C9_QueryBound == \A n \in queryCounts : n <= 12

\* C9 witness: a call of dnsQuery that issued 12 queries (a CNAME loop).
C9_Witness == 12 \in queryCounts

\* The reference run of an input sequence: the requests are taken one at a
\* time in input order, each is resolved on its own, and every probe of the
\* wildcard detection draws the label of 31 times "q", which no host has.

\* The requests admitted from inputs[i..], seen being the names admitted
RECURSIVE RefAdmitted(_, _, _)
RefAdmitted(in, i, seen) ==
    IF i > Len(in) THEN <<>>
    ELSE IF trim252F(in[i].Name) = <<>> \/ trim252F(in[i].Name) \in seen
         THEN RefAdmitted(in, i + 1, seen)
         ELSE <<[in[i] EXCEPT !.Name = trim252F(in[i].Name)]>>
                \o RefAdmitted(in, i + 1, seen \cup {trim252F(in[i].Name)})

RefCheck(sub, root) ==
    checkForWildcard(sub, root, knownPublicServers[1], RndConst("q"))

RefWildcard(sub, root) ==
    wildcardDetection([k \in 1..3 |-> RefCheck(sub, root)]).result

RefMatchAt(labels, depth, root, ip) ==
    \E i \in 1..depth :
        /\ ~RefWildcard(SubAt(labels, i), root).nil
        /\ ip \in RefWildcard(SubAt(labels, i), root).set

RefMatch(name, root, ip) ==
    RefMatchAt(Split(name), Len(Split(name)) - Len(Split(root)), root, ip)

\* The (name, address) pairs the reference run emits for one request, q
\* being the answer of dnsQuery and ip its first A record
RefPairsOf(req, q, ip) ==
    IF q.err \/ ip = <<>> THEN {}
    ELSE IF req.Tag # SEARCH /\ RefMatch(req.Name, req.Domain, ip) THEN {}
    ELSE {<<trim252F(q.answers[i].Name), ip>> : i \in
            {k \in DOMAIN q.answers :
                HasSuffix(q.answers[k].Name, req.Domain)}}

RefAnswered(req, q) == RefPairsOf(req, q, GetARecordData(q.answers))

RefPairs(req) ==
    IF req.Domain = <<>> THEN {}
    ELSE RefAnswered(req, dnsQuery(req.Domain, req.Name,
                                   knownPublicServers[1]))

RefOutputOf(admitted) ==
    UNION {RefPairs(admitted[i]) : i \in DOMAIN admitted}

RefOutput(in) == RefOutputOf(RefAdmitted(in, 1, {}))

\* The (name, address) pairs written to the output stream
OutputPairs == {<<e.req.Name, e.req.Address>> : e \in BagToSet(output)}

\* Every probe of the suffix gives the same result, whatever label it draws
\* and whatever server it asks
ProbeAlike(sub, root) ==
    Cardinality(UNION {{c.ss : c \in Checks(sub, root, knownPublicServers[n])} :
                       n \in DOMAIN knownPublicServers}) = 1

\* Every suffix a request of the input can have probed is such a suffix
ProbesAlikeAt(labels, depth, root) ==
    \A i \in 1..depth : ProbeAlike(SubAt(labels, i), root)

ProbesAlike(in) ==
    \A k \in DOMAIN in :
        in[k].Domain # <<>> =>
            ProbesAlikeAt(Split(trim252F(in[k].Name)),
                          Len(Split(trim252F(in[k].Name)))
                            - Len(Split(in[k].Domain)),
                          in[k].Domain)

\* C10 as claimed: with the fixed resolver, the pairs emitted once the run
\* has drained are those of the reference run of the same input sequence,
\* whatever the interleaving and the random choices were.
C10_Deterministic == Drained => OutputPairs = RefOutput(inputs)

\* C10 as amended: the same, for the input sequences whose probed suffixes
\* give every probe the same result whatever label it draws.
C10_DeterministicProbesAlike ==
    (Drained /\ ProbesAlike(inputs)) => OutputPairs = RefOutput(inputs)

\* C10 witness: a drained run of two tasks that both asked the wildcard
\* worker, one suppressed and one written, under suffixes whose probes do
\* not depend on the label.
C10_Witness ==
    /\ Drained
    /\ ProbesAlike(inputs)
    /\ Len(tasks) = 2
    /\ \A t \in DOMAIN tasks : tasks[t].req.Address # <<>>
    /\ \E t \in DOMAIN tasks : tasks[t].match /\ EmittedBy(t) = {}
    /\ OutputPairs # {}

\* A name in the apex: the domain itself or a name ending in "." and the
\* domain
InApex(name, domain) ==
    name = domain \/ HasSuffix(name, <<Dot>> \o domain)

\* The request the claim expects for answer record of request req
ExpectedFor(req, record) ==
    [Name |-> record.Name, Domain |-> req.Domain, Address |-> req.Address,
     Tag |-> IF record.Name = req.Name THEN req.Tag ELSE DNS,
     Source |-> IF record.Name = req.Name THEN req.Source ELSE "DNS"]

\* C11: for a resolved request that is not suppressed, the requests handed
\* to sendOut are exactly those of the answers whose name is in the apex
\* (never one of a name outside it); the one of the original name carries
\* the original tag and source, the others DNS and "DNS", and all carry the
\* request's domain and the first A-record address.
C11_EmissionExact ==
    \A t \in DOMAIN tasks :
        ( /\ tasks[t].pc = "done"
          /\ tasks[t].req.Address # <<>>
          /\ ~(tasks[t].match /\ tasks[t].req.Tag # SEARCH) )
        => {e.req : e \in EmittedBy(t)}
             = {ExpectedFor(tasks[t].req, tasks[t].answers[k]) : k \in
                  {i \in DOMAIN tasks[t].answers :
                      InApex(tasks[t].answers[i].Name, tasks[t].req.Domain)}}

\* The requests of task t that were handed to sendOut under the original
\* name, with their number of copies
OwnEmissions(t) ==
    {e \in BagToSet(sending (+) output) :
        e.by = t /\ e.req.Name = tasks[t].req.Name}

\* C12: a dispatched request that resolves and is not suppressed is emitted
\* exactly once under its original name, also when both the A and the AAAA
\* query answer or several A records are returned.
C12_OneOwnEmission ==
    \A t \in DOMAIN tasks :
        ( /\ tasks[t].pc = "done"
          /\ tasks[t].req.Address # <<>>
          /\ ~(tasks[t].match /\ tasks[t].req.Tag # SEARCH) )
        => /\ Cardinality(OwnEmissions(t)) = 1
           /\ \A e \in OwnEmissions(t) : CopiesIn(e, sending (+) output) = 1

\* Task t was in flight when the quit channel was closed
InFlightAtQuit(t) == t \in DOMAIN tasks /\ tasks[t].atQuit

\* Task t has returned
Returned(t) == t \in DOMAIN tasks /\ tasks[t].pc = "done"

\* C13: every resolution task that was in flight when the quit channel was
\* closed eventually returns, unless the process panics.
C13_InFlightComplete ==
    \A t \in 1..MaxInputs :
        InFlightAtQuit(t) ~> (Returned(t) \/ panicked)

\* The alias chain of a name in the zone, at most k records long
RECURSIVE AliasChain(_, _)
AliasChain(name, k) ==
    IF k = 0 \/ ResolveDNS(name, knownPublicServers[1], "CNAME").err
    THEN <<>>
    ELSE <<ResolveDNS(name, knownPublicServers[1], "CNAME").ans[1]>>
           \o AliasChain(ResolveDNS(name, knownPublicServers[1],
                                    "CNAME").ans[1].Data, k - 1)

\* The final name of the alias chain
FinalName(name, chain) ==
    IF chain = <<>> THEN name ELSE chain[Len(chain)].Data

\* The answers of a query of the zone, none when it fails
ZoneAnswers(name, qtype) ==
    IF ResolveDNS(name, knownPublicServers[1], qtype).err THEN <<>>
    ELSE ResolveDNS(name, knownPublicServers[1], qtype).ans

\* Both address queries of the name fail
NoAddress(name) ==
    /\ ResolveDNS(name, knownPublicServers[1], "A").err
    /\ ResolveDNS(name, knownPublicServers[1], "AAAA").err

\* What the claim says dnsQuery returns for the name, given its alias chain
DnsQueryAsClaimed(name, chain) ==
    IF NoAddress(FinalName(name, chain))
    THEN [err |-> TRUE, answers |-> <<>>]
    ELSE [err |-> FALSE,
          answers |-> chain \o ZoneAnswers(FinalName(name, chain), "A")
                           \o ZoneAnswers(FinalName(name, chain), "AAAA")]

\* Task t has its answer from dnsQuery
Queried(t) == tasks[t].pc \in {"wait", "done"}

\* C14: dnsQuery fails, with an empty answer list, if and only if both the
\* A and the AAAA query of the final name of the alias chain failed;
\* otherwise it returns the CNAME answers, then the A answers, then the
\* AAAA answers.
C14_QueryResult ==
    \A t \in DOMAIN tasks :
        Queried(t) =>
            [err |-> ~tasks[t].resolved, answers |-> tasks[t].answers]
              = DnsQueryAsClaimed(tasks[t].req.Name,
                                  AliasChain(tasks[t].req.Name, CNAMEHops))

\* C14 witness: one query failed after it had collected ten CNAME answers,
\* and one succeeded on the AAAA query alone.
C14_Witness ==
    /\ \E t \in DOMAIN tasks :
         /\ Queried(t)
         /\ ~tasks[t].resolved
         /\ Len(AliasChain(tasks[t].req.Name, CNAMEHops)) = CNAMEHops
    /\ \E t \in DOMAIN tasks :
         /\ Queried(t)
         /\ tasks[t].resolved
         /\ ResolveDNS(tasks[t].req.Name, knownPublicServers[1], "A").err

\* Task t has the answer of matchesWildcard, and the answer
Answered(t) ==
    \/ tasks[t].pc = "wait" /\ tasks[t].reply # <<>>
    \/ tasks[t].pc = "done" /\ tasks[t].req.Address # <<>>

AnswerOf(t) ==
    IF tasks[t].pc = "wait" THEN tasks[t].reply[1] ELSE tasks[t].match

\* The number of labels the name of task t has more than its apex
DepthOf(t) == Len(Split(tasks[t].req.Name)) - Len(Split(tasks[t].req.Domain))

\* The suffix of the name of task t after its first i labels
SuffixOf(t, i) == SubAt(Split(tasks[t].req.Name), i)

\* The cache holds a Positive entry for the suffix with ip among its answers
PositiveFor(sub, ip) ==
    /\ sub \in DOMAIN wildcardCache
    /\ wildcardCache[sub].HasWildcard
    /\ ip \in wildcardCache[sub].Answers.set

\* C15 as claimed: matchesWildcard answers true if and only if a suffix of
\* the name from its immediate parent down towards the apex, the apex itself
\* excluded, has a Positive cache entry holding the address; the apex is
\* never a cached key.
C15_MatchIffAboveApex ==
    \A t \in DOMAIN tasks :
        Answered(t) =>
            /\ AnswerOf(t) <=>
                  \E i \in 1..(DepthOf(t) - 1) :
                      PositiveFor(SuffixOf(t, i), tasks[t].req.Address)
            /\ tasks[t].req.Domain \notin DOMAIN wildcardCache

\* C15 as amended: the same with the apex included: the suffixes run from
\* the immediate parent of the name down to the apex itself, and each of
\* them is a cached key once the answer is given.
C15_MatchIffDownToApex ==
    \A t \in DOMAIN tasks :
        Answered(t) =>
            /\ AnswerOf(t) <=>
                  \E i \in 1..DepthOf(t) :
                      PositiveFor(SuffixOf(t, i), tasks[t].req.Address)
            /\ \A i \in 1..DepthOf(t) : SuffixOf(t, i) \in DOMAIN wildcardCache

\* C15 witness: an answer true for a name right under its apex (the apex is
\* the only suffix), and an answer false although a suffix is Positive.
C15_Witness ==
    /\ \E t \in DOMAIN tasks :
         Answered(t) /\ AnswerOf(t) /\ DepthOf(t) = 1
    /\ \E t \in DOMAIN tasks :
         /\ Answered(t)
         /\ ~AnswerOf(t)
         /\ \E i \in 1..DepthOf(t) : wildcardCache[SuffixOf(t, i)].HasWildcard

\* C16: a stored wildcard cache entry never changes (neither its flag nor
\* its answer set), and wildcardDetection runs at most once per suffix.
C16_EntriesFrozen ==
    [][ /\ \A sub \in DOMAIN wildcardCache :
             /\ sub \in DOMAIN wildcardCache'
             /\ wildcardCache'[sub] = wildcardCache[sub]
        /\ \A sub \in DOMAIN detected' : detected'[sub] <= 1 ]_vars

\* C16 witness: two answered tasks share a suffix, which was detected once.
C16_Witness ==
    \E t1, t2 \in DOMAIN tasks :
        /\ t1 # t2
        /\ Answered(t1)
        /\ Answered(t2)
        /\ \E i \in 1..DepthOf(t1), j \in 1..DepthOf(t2) :
              /\ SuffixOf(t1, i) = SuffixOf(t2, j)
              /\ BagIn(SuffixOf(t1, i), detected)
              /\ CopiesIn(SuffixOf(t1, i), detected) = 1

\* The probes of the finished call of wildcardDetection all resolved, to
\* the same non-empty set
ProbesAgree ==
    /\ detection.probes = 3
    /\ \A k \in 1..3 : ~detection.checks[k].ss.nil
    /\ detection.checks[1].ss.set # {}
    /\ detection.checks[1].ss.set = detection.checks[2].ss.set
    /\ detection.checks[2].ss.set = detection.checks[3].ss.set

\* C17: wildcardDetection declares the suffix Positive, with the set of the
\* first probe, if and only if all three probes resolved to the same
\* non-empty set; otherwise (a probe failed, no probe name could be
\* generated, the sets differ) it declares it Negative.  All the probes it
\* issues go to one and the same resolver.
C17_DetectionDecision ==
    detection.pc = "done" =>
        /\ ProbesAgree => detection.result = detection.checks[1].ss
        /\ ~ProbesAgree => detection.result = NilSet
        /\ (\E k \in DOMAIN detection.asked :
                \/ detection.asked[k].name = <<>>
                \/ detection.checks[k].ss.nil) => detection.result = NilSet
        /\ \A j, k \in DOMAIN detection.asked :
              detection.asked[j].server = detection.asked[k].server

\* C17 witness: a Positive detection whose probes drew different labels.
C17_Witness ==
    /\ detection.pc = "done"
    /\ ~detection.result.nil
    /\ detection.asked[1].name # detection.asked[2].name

\* C17 witness of the other side: three probes that all resolved, to sets
\* that differ, and a Negative result.
C17_WitnessDiffer ==
    /\ detection.pc = "done"
    /\ detection.probes = 3
    /\ \A k \in 1..3 : ~detection.checks[k].ss.nil
    /\ detection.checks[1].ss.set # detection.checks[3].ss.set
    /\ detection.result.nil

\* C18: the requests leave the queue in the order of their admission (the
\* requests popped so far, followed by the queue, are the admitted requests
\* in input order), and a step pops at most one request.
C18_FifoOrder ==
    [][ /\ popped' \o queue' = RefAdmitted(inputs', 1, {})
        /\ Len(popped') <= Len(popped) + 1 ]_vars

\* C18 witness: the first admitted request was popped while the second one
\* waits in the queue.
C18_Witness ==
    /\ Len(popped) = 1
    /\ Len(queue) = 1
    /\ popped[1].Name # queue[1].Name

\* C19: whenever the queue of processRequests is not empty, the activity
\* flag is true.
C19_ActiveWhileQueued == Len(queue) > 0 => active

\* C19 witness: a request waits in the queue after a tick has dispatched an
\* earlier one, and the flag is true.
C19_Witness ==
    /\ Len(queue) > 0
    /\ Len(tasks) > 0
    /\ active

\* C20: under fair ticks and as long as no quit signal is given, every
\* admitted request is eventually popped (the n-th admitted request, for
\* every n), and a non-empty queue eventually becomes empty with the
\* activity flag cleared by an idle check.
C20_QueueDrains ==
    /\ \A n \in 1..MaxInputs :
         (Len(popped) + Len(queue) >= n) ~> (Len(popped) >= n \/ quit)
    /\ (Len(queue) > 0) ~> ((queue = <<>> /\ ~active) \/ quit)

====
